---- MODULE Spec2Model ----
(***************************************************************************)
(* Content Claims: the derived-claim resolver (BlockIndexClaimFetcher),     *)
(* the client's decode/read, and the assert service handlers.              *)
(*                                                                         *)
(* Strings are sequences of tokens.  The separators "/" and "." are tokens *)
(* of their own, so split, join, startsWith and the filename/hash          *)
(* extraction are computed on the text and not assumed.                    *)
(***************************************************************************)
EXTENDS Integers, Sequences, FiniteSets, TLC

VARIABLES
  pc,        \* position of BlockIndexClaimFetcher.get
  content,   \* the content link get was called with
  dynamo,    \* the records the position index holds for the content
  attempts,  \* failed query attempts so far
  warnings,  \* console.warn calls made by onFailedAttempt
  now,       \* Date.now() read by get, in milliseconds
  item,      \* the selected record, as a list of zero or one record
  locTask,   \* the promise of buildLocationClaim
  relTask,   \* the promise of buildRelationClaim
  result,    \* what the promise returned by get settled to
  rpc,       \* position of the client's read
  response,  \* the response fetch resolved to, as a list of zero or one response
  cursor,    \* how many blocks of the body the CAR reader has handed to write
  claims,    \* the claims read has decoded so far
  readResult, \* what the promise returned by read settled to
  spc,       \* position of the service in the handling of an invocation
  handling,  \* the assert invocation being handled, as a list of zero or one
  puts,      \* calls of claimStore.put made for the invocation being handled
  store,     \* the claims the claim store holds
  receipts,  \* one record per invocation handled
  fetched    \* the last answer of claimStore.get

fetcherVars == <<pc, content, dynamo, attempts, warnings, now, item, locTask, relTask, result>>

readVars == <<rpc, response, cursor, claims, readResult>>

serviceVars == <<spc, handling, puts, store, receipts, fetched>>

vars == <<fetcherVars, readVars, serviceVars>>

-----------------------------------------------------------------------------
(* Bounds of the model *)

MaxItems == 2
MaxBlocks == 2
MaxInvocations == 2

-----------------------------------------------------------------------------
(* Program constants *)

CAR_CODE == 514
LIMIT == 10
Retries == 10
HourSeconds == 3600

ServiceDID == "did:web:claims.web3.storage"

-----------------------------------------------------------------------------
(* Text helpers *)

RECURSIVE Split(_, _)
Split(s, sep) ==
  IF \E i \in 1..Len(s) : s[i] = sep
  THEN LET i == CHOOSE j \in 1..Len(s) : s[j] = sep /\ \A k \in 1..(j - 1) : s[k] # sep
       IN  <<SubSeq(s, 1, i - 1)>> \o Split(SubSeq(s, i + 1, Len(s)), sep)
  ELSE <<s>>

RECURSIVE Join(_, _)
Join(parts, sep) ==
  IF parts = <<>> THEN <<>>
  ELSE IF Len(parts) = 1 THEN parts[1]
  ELSE parts[1] \o <<sep>> \o Join(Tail(parts), sep)

\* the tokens whose text begins with the letters r, a, w
RawPrefixed == {"raw", "rawcars"}

StartsWithRaw(key) == Len(key) > 0 /\ key[1] \in RawPrefixed

-----------------------------------------------------------------------------
(* Content identifiers *)

\* EncodingLength with the comparisons off by one
EncodingLength_Inclusive(value) ==
  IF value <= 2^7 THEN 1
  ELSE IF value <= 2^14 THEN 2
  ELSE IF value <= 2^21 THEN 3
  ELSE IF value <= 2^28 THEN 4
  ELSE 5

\* varint.encodingLength
EncodingLength(value) ==
  IF value < 2^7 THEN 1
  ELSE IF value < 2^14 THEN 2
  ELSE IF value < 2^21 THEN 3
  ELSE IF value < 2^28 THEN 4
  ELSE 5

SHA256 == [code |-> 18, size |-> 32]
SHA512 == [code |-> 19, size |-> 64]

Multihash(alg, digest) == [code |-> alg.code, size |-> alg.size, digest |-> digest]

\* Link.create
LinkCreate(code, multihash) == [version |-> 1, code |-> code, multihash |-> multihash]

\* link.bytes.length: a CIDv0 is its bare multihash
LinkBytesLength(link) ==
  LET mh == EncodingLength(link.multihash.code) + EncodingLength(link.multihash.size)
            + link.multihash.size
  IN  IF link.version = 0 THEN mh
      ELSE EncodingLength(link.version) + EncodingLength(link.code) + mh

\* the content links get is called with: dag-pb CIDv1, CIDv0, raw sha2-512 CIDv1
Contents == {
  LinkCreate(112, Multihash(SHA256, "blockA")),
  [version |-> 0, code |-> 112, multihash |-> Multihash(SHA256, "blockB")],
  LinkCreate(85, Multihash(SHA512, "blockC")) }

-----------------------------------------------------------------------------
(* The position index (DynamoDB) *)

\* text of a CAR CID, of a dag-pb CIDv1, of a CIDv0, and of base32 CAR multihashes
CarCidText == "bagbaieraCARX"
RootCidText == "bafybeiROOT"
RootV0Text == "QmROOT"
CarHashTextY == "ciqCARY"
CarHashTextZ == "ciqCARZ"

\* carpath attribute values: region/bucket/key
CarPaths == {
  <<"auto", "/", "carpark-prod-0", "/", CarCidText, "/", CarCidText, ".", "car">>,
  <<"us-west-2", "/", "dotstorage-prod-1", "/", "raw", "/", RootCidText, "/", "315", "/", CarHashTextY, ".", "car">>,
  <<"us-east-2", "/", "dotstorage-prod-0", "/", "raw", "/", RootCidText, "/", "315", "/", CarHashTextZ, ".", "car">>,
  <<"us-west-2", "/", "dotstorage-prod-1", "/", "complete", "/", RootCidText, ".", "car">>,
  <<"us-east-2", "/", "dotstorage-prod-0", "/", "complete", "/", RootV0Text, ".", "car">>,
  <<"us-east-1", "/", "other-bucket", "/", "rawcars", "/", "nft-123">> }

\* offset and length attribute values: the block's bytes start after the CAR
\* header and the block's own frame, so an offset is never below the frame size
Positions == <<
  [offset |-> 100, length |-> 50],
  [offset |-> 300, length |-> 92],
  [offset |-> 400, length |-> 16348] >>

RECURSIVE SeqsUpTo(_, _)
SeqsUpTo(S, n) ==
  IF n = 0 THEN { <<>> }
  ELSE LET shorter == SeqsUpTo(S, n - 1)
       IN  shorter \cup { Append(q, x) : q \in { r \in shorter : Len(r) = n - 1 }, x \in S }

\* the record at place i of a result set whose positions start at Positions[k]
Record(carpath, k, i) ==
  LET position == Positions[((k + i) % Len(Positions)) + 1]
  IN  [carpath |-> carpath, offset |-> position.offset, length |-> position.length]

\* the result sets a query can return, at most LIMIT records: any list of
\* carpaths, the records of a list at different positions
QueryResults ==
  { [i \in 1..Len(paths) |-> Record(paths[i], k, i)] :
      paths \in SeqsUpTo(CarPaths, IF MaxItems < LIMIT THEN MaxItems ELSE LIMIT),
      k \in 1..Len(Positions) }

-----------------------------------------------------------------------------
(* bucketKeyToPartCID *)

\* Link.parse: a list holding the link, empty when parsing throws
LinkParse(hash) ==
  IF hash = <<CarCidText>> THEN << LinkCreate(CAR_CODE, Multihash(SHA256, "carX")) >>
  ELSE IF hash = <<RootCidText>> THEN << LinkCreate(112, Multihash(SHA256, "root")) >>
  ELSE IF hash = <<RootV0Text>> THEN << [version |-> 0, code |-> 112, multihash |-> Multihash(SHA256, "root")] >>
  ELSE <<>>

\* link.toV1()
ToV1(link) == [link EXCEPT !.version = 1]

\* fromString(hash, 'base32'): the decoded bytes as (multihash code, declared
\* size, number of digest bytes, digest); empty when a character is not base32
FromStringBase32(hash) ==
  IF hash = <<CarHashTextY>> THEN << [code |-> 18, size |-> 32, length |-> 32, digest |-> "carY"] >>
  ELSE IF hash = <<CarHashTextZ>> THEN << [code |-> 18, size |-> 32, length |-> 32, digest |-> "carZ"] >>
  ELSE IF hash = <<CarCidText>> THEN << [code |-> 0, size |-> 64, length |-> 35, digest |-> "junk"] >>
  ELSE IF hash = <<RootCidText>> THEN << [code |-> 1, size |-> 47, length |-> 35, digest |-> "junk"] >>
  ELSE IF hash = <<>> THEN << [code |-> 0, size |-> 0, length |-> -2, digest |-> ""] >>
  ELSE <<>>

\* Digest.decode: throws on bytes too short for the two varints or of the wrong length
DigestDecode(bytes) ==
  IF bytes.length >= 0 /\ bytes.length = bytes.size
  THEN << [code |-> bytes.code, size |-> bytes.size, digest |-> bytes.digest] >>
  ELSE <<>>

\* bucketKeyToPartCID without the base32 multihash of the older buckets
bucketKeyToPartCID_NoLegacy(key) ==
  LET segments == Split(key, "/")
      filename == segments[Len(segments)]
      hash == Split(filename, ".")[1]
      parsed == LinkParse(hash)
  IN  IF parsed # <<>> /\ ToV1(parsed[1]).code = CAR_CODE THEN << ToV1(parsed[1]) >>
      ELSE <<>>

\* a list holding the part link, empty for undefined
bucketKeyToPartCID(key) ==
  LET segments == Split(key, "/")
      filename == segments[Len(segments)]
      hash == Split(filename, ".")[1]
      parsed == LinkParse(hash)
      bytes == FromStringBase32(hash)
      digest == IF bytes = <<>> THEN <<>> ELSE DigestDecode(bytes[1])
  IN  IF parsed # <<>> /\ ToV1(parsed[1]).code = CAR_CODE THEN << ToV1(parsed[1]) >>
      ELSE IF digest # <<>> THEN << LinkCreate(CAR_CODE, digest[1]) >>
      ELSE <<>>

-----------------------------------------------------------------------------
(* Selection of the record *)

\* Array.prototype.find over the answers of its predicate, as the index of
\* the first match or 0
FindIndex(matches) ==
  IF \E i \in 1..Len(matches) : matches[i]
  THEN CHOOSE i \in 1..Len(matches) : matches[i] /\ \A j \in 1..(i - 1) : ~matches[j]
  ELSE 0

\* the map over result.Items: unmarshall, split the carpath, join the rest
NormalizeItem(raw) ==
  LET segments == Split(raw.carpath, "/")
  IN  [region |-> segments[1],
       bucket |-> segments[2],
       key |-> Join(SubSeq(segments, 3, Len(segments)), "/"),
       offset |-> raw.offset,
       length |-> raw.length]

NormalizeItems(rawItems) == [i \in 1..Len(rawItems) |-> NormalizeItem(rawItems[i])]

\* the answers of the three predicates of get over the records
IsCarpark(items) == [i \in 1..Len(items) |-> items[i].bucket = <<"carpark-prod-0">>]
IsRawProd1(items) ==
  [i \in 1..Len(items) |-> items[i].bucket = <<"dotstorage-prod-1">> /\ StartsWithRaw(items[i].key)]
IsRawProd0(items) ==
  [i \in 1..Len(items) |-> items[i].bucket = <<"dotstorage-prod-0">> /\ StartsWithRaw(items[i].key)]

\* SelectIndex with the two legacy generations tried in the other order
SelectIndex_LegacySwapped(items) ==
  IF FindIndex(IsCarpark(items)) # 0 THEN FindIndex(IsCarpark(items))
  ELSE IF FindIndex(IsRawProd0(items)) # 0 THEN FindIndex(IsRawProd0(items))
  ELSE IF FindIndex(IsRawProd1(items)) # 0 THEN FindIndex(IsRawProd1(items))
  ELSE IF Len(items) > 0 THEN 1
  ELSE 0

\* the index of the selected record, 0 when there is none
SelectIndex(items) ==
  IF FindIndex(IsCarpark(items)) # 0 THEN FindIndex(IsCarpark(items))
  ELSE IF FindIndex(IsRawProd1(items)) # 0 THEN FindIndex(IsRawProd1(items))
  ELSE IF FindIndex(IsRawProd0(items)) # 0 THEN FindIndex(IsRawProd0(items))
  ELSE IF Len(items) > 0 THEN 1
  ELSE 0

\* a list holding the selected record, empty for undefined
SelectItem(items) ==
  IF SelectIndex(items) = 0 THEN <<>> ELSE << items[SelectIndex(items)] >>

-----------------------------------------------------------------------------
(* Blocks, invocations and archives *)

\* sha256.digest: the digest stands for the bytes it was computed from
Sha256Digest(bytes) == Multihash(SHA256, bytes)

\* codecs of the signed invocation's root block and of the sorted multihash index
DAG_CBOR == 113
INDEX_SORTED_CODE == 1025

\* Assert.<kind>.can
AssertLocation == "assert/location"
AssertPartition == "assert/partition"
AssertInclusion == "assert/inclusion"
AssertRelation == "assert/relation"
AssertEquals == "assert/equals"

\* Assert.<kind>.invoke({ issuer, audience, with, nb, expiration })
Invoke(signer, can, nb, expiration) ==
  [issuer |-> signer, audience |-> signer,
   capabilities |-> << [with |-> signer, can |-> can, nb |-> nb] >>,
   expiration |-> expiration, attached |-> <<>>]

\* invocation.attach(block)
Attach(invocation, block) == [invocation EXCEPT !.attached = Append(@, block)]

\* the bytes of the signed root block: its fields in their canonical order
EncodeRoot(invocation) ==
  << <<"att", invocation.capabilities>>, <<"aud", invocation.audience>>,
     <<"exp", invocation.expiration>>, <<"iss", invocation.issuer>>,
     <<"s", invocation.issuer>> >>

Field(bytes, name) == bytes[CHOOSE i \in 1..Len(bytes) : bytes[i][1] = name][2]

HasField(bytes, name) == \E i \in 1..Len(bytes) : bytes[i][1] = name

\* invocation.buildIPLDView(): the signed root block and the attached blocks
BuildIPLDView(invocation) ==
  LET bytes == EncodeRoot(invocation)
  IN  [cid |-> LinkCreate(DAG_CBOR, Sha256Digest(bytes)),
       bytes |-> bytes,
       expiration |-> invocation.expiration,
       attached |-> invocation.attached]

\* ipldView.archive() when it succeeds: a CAR of the attached blocks and the
\* root block, whose root names the root block
Archive(ipldView) ==
  [roots |-> << ipldView.cid >>,
   blocks |-> ipldView.attached \o << [cid |-> ipldView.cid, bytes |-> ipldView.bytes] >>]

\* Delegation.extract: the root named by the archive must be one of its
\* blocks and hold a signed invocation; a list holding the delegation, empty
\* for an error result
Extract(bytes) ==
  IF Len(bytes.roots) # 1 THEN <<>>
  ELSE LET found == { i \in 1..Len(bytes.blocks) : bytes.blocks[i].cid = bytes.roots[1] }
       IN  IF found = {} THEN <<>>
           ELSE LET root == bytes.blocks[CHOOSE i \in found : TRUE].bytes
                IN  IF ~(HasField(root, "att") /\ HasField(root, "exp")) THEN <<>>
                    ELSE << [cid |-> LinkCreate(DAG_CBOR, Sha256Digest(root)),
                             capabilities |-> Field(root, "att"),
                             expiration |-> Field(root, "exp")] >>

-----------------------------------------------------------------------------
(* Claim builders *)

\* buildClaim taking the link of the archive for the link of the invocation
buildClaim_ArchiveLink(contentLink, invocation) ==
  LET ipldView == BuildIPLDView(invocation)
  IN  [claim |-> LinkCreate(CAR_CODE, ipldView.cid.multihash),
       bytes |-> Archive(ipldView),
       content |-> contentLink.multihash,
       expiration |-> ipldView.expiration,
       value |-> invocation.capabilities[1]]

\* buildClaim once the archive succeeded
buildClaim(contentLink, invocation) ==
  LET ipldView == BuildIPLDView(invocation)
  IN  [claim |-> ipldView.cid,
       bytes |-> Archive(ipldView),
       content |-> contentLink.multihash,
       expiration |-> ipldView.expiration,
       value |-> invocation.capabilities[1]]

\* new URL(`https://${bucket}.s3.amazonaws.com/${key}`)
LocationURL(bucket, key) == [protocol |-> "https:", host |-> bucket \o <<".s3.amazonaws.com">>, pathname |-> <<"/">> \o key]

\* url.toString()
URLToString(url) == <<url.protocol, "//">> \o url.host \o url.pathname

\* the invocation buildLocationClaim archives
buildLocationClaim(signer, contentLink, location, offset, length, expiration) ==
  Invoke(signer, AssertLocation,
         [content |-> contentLink,
          location |-> [i \in 1..Len(location) |-> URLToString(location[i])],
          range |-> [offset |-> offset, length |-> length]],
         expiration)

\* encodeIndex: a sorted multihash index of one entry, and its link
encodeIndex(contentLink, offset) ==
  LET bytes == << [code |-> contentLink.multihash.code,
                   digest |-> contentLink.multihash.digest,
                   offset |-> offset] >>
  IN  [cid |-> LinkCreate(INDEX_SORTED_CODE, Sha256Digest(bytes)), bytes |-> bytes]

\* the offset of the block's frame in the CAR
CarOffset(contentLink, offset, length) ==
  offset - (EncodingLength(LinkBytesLength(contentLink) + length) + LinkBytesLength(contentLink))

\* the invocation buildRelationClaim archives, with the index attached
buildRelationClaim(signer, contentLink, part, offset, length, expiration) ==
  LET index == encodeIndex(contentLink, CarOffset(contentLink, offset, length))
  IN  Attach(Invoke(signer, AssertRelation,
                    [content |-> contentLink,
                     children |-> <<>>,
                     parts |-> << [content |-> part, includes |-> [content |-> index.cid]] >>],
                    expiration),
             index)

\* Math.ceil((Date.now() / 1000) + (60 * 60))
Expiration(ms) == ((ms + 999) \div 1000) + HourSeconds

-----------------------------------------------------------------------------
(* BlockIndexClaimFetcher.get *)

\* Date.now() values, not a whole second
Clock == {5001}

NoTask == [state |-> "none", invocation |-> <<>>, claim |-> <<>>]
Pending == [status |-> "pending", claims |-> <<>>, error |-> ""]
Fulfilled(list) == [status |-> "fulfilled", claims |-> list, error |-> ""]
Rejected(message) == [status |-> "rejected", claims |-> <<>>, error |-> message]

\* a call of get(content) against a position index holding some records
InitGet ==
  /\ pc = "query"
  /\ content \in Contents
  /\ dynamo \in QueryResults
  /\ attempts = 0
  /\ warnings = 0
  /\ now = 0
  /\ item = <<>>
  /\ locTask = NoTask
  /\ relTask = NoTask
  /\ result = Pending

\* no call of get
IdleGet ==
  /\ pc = "idle"
  /\ content = LinkCreate(112, Multihash(SHA256, "blockA"))
  /\ dynamo = <<>>
  /\ attempts = 0
  /\ warnings = 0
  /\ now = 0
  /\ item = <<>>
  /\ locTask = NoTask
  /\ relTask = NoTask
  /\ result = Pending

\* retry left out: the first failed send fails get
QueryAttemptFails_NoRetry ==
  /\ pc = "query"
  /\ warnings' = warnings + 1
  /\ attempts' = attempts + 1
  /\ pc' = "failed"
  /\ result' = Rejected("query failed")
  /\ UNCHANGED <<content, dynamo, now, item, locTask, relTask>>

\* an attempt of dynamoClient.send(command) fails: onFailedAttempt logs it,
\* and p-retry gives up after the first attempt and Retries more
QueryAttemptFails ==
  /\ pc = "query"
  /\ warnings' = warnings + 1
  /\ attempts' = attempts + 1
  /\ IF attempts >= Retries
     THEN pc' = "failed" /\ result' = Rejected("query failed")
     ELSE pc' = "query" /\ result' = result
  /\ UNCHANGED <<content, dynamo, now, item, locTask, relTask>>

\* the claims array of get: buildLocationClaim has built its invocation and
\* awaits the archive; buildRelationClaim awaits encodeIndex
StartClaims(selected, ms) ==
  LET part == bucketKeyToPartCID(selected.key)
      location == << LocationURL(selected.bucket, selected.key) >>
  IN  /\ locTask' = [state |-> "archiving",
                     invocation |-> << buildLocationClaim(ServiceDID, content, location,
                                                          selected.offset, selected.length,
                                                          Expiration(ms)) >>,
                     claim |-> <<>>]
      /\ relTask' = IF part # <<>>
                    THEN [state |-> "indexing", invocation |-> <<>>, claim |-> <<>>]
                    ELSE NoTask

\* an attempt succeeds: the records are normalised, one is selected and the
\* claim builders are started
QuerySucceeds ==
  /\ pc = "query"
  /\ LET items == NormalizeItems(dynamo)
         selected == SelectItem(items)
     IN  /\ item' = selected
         /\ IF selected = <<>>
            THEN /\ pc' = "done"
                 /\ result' = Fulfilled(<<>>)
                 /\ UNCHANGED <<now, locTask, relTask>>
            ELSE /\ \E ms \in Clock :
                      /\ now' = ms
                      /\ StartClaims(selected[1], ms)
                 /\ pc' = "await"
                 /\ result' = result
  /\ UNCHANGED <<content, dynamo, attempts, warnings>>

\* buildClaim of the location claim: the archive succeeds
LocationArchived ==
  /\ locTask.state = "archiving"
  /\ locTask' = [locTask EXCEPT !.state = "fulfilled",
                                !.claim = << buildClaim(content, locTask.invocation[1]) >>]
  /\ UNCHANGED <<pc, content, dynamo, attempts, warnings, now, item, relTask, result>>

\* buildClaim of the location claim throws 'failed to archive invocation'
LocationArchiveFails ==
  /\ locTask.state = "archiving"
  /\ locTask' = [locTask EXCEPT !.state = "rejected"]
  /\ UNCHANGED <<pc, content, dynamo, attempts, warnings, now, item, relTask, result>>

\* buildRelationClaim after encodeIndex: the invocation is built with the
\* index attached and buildClaim awaits the archive
RelationIndexed ==
  /\ relTask.state = "indexing"
  /\ relTask' = [relTask EXCEPT
       !.state = "archiving",
       !.invocation = << buildRelationClaim(ServiceDID, content,
                                            bucketKeyToPartCID(item[1].key)[1],
                                            item[1].offset, item[1].length,
                                            Expiration(now)) >>]
  /\ UNCHANGED <<pc, content, dynamo, attempts, warnings, now, item, locTask, result>>

RelationArchived ==
  /\ relTask.state = "archiving"
  /\ relTask' = [relTask EXCEPT !.state = "fulfilled",
                                !.claim = << buildClaim(content, relTask.invocation[1]) >>]
  /\ UNCHANGED <<pc, content, dynamo, attempts, warnings, now, item, locTask, result>>

RelationArchiveFails ==
  /\ relTask.state = "archiving"
  /\ relTask' = [relTask EXCEPT !.state = "rejected"]
  /\ UNCHANGED <<pc, content, dynamo, attempts, warnings, now, item, locTask, result>>

\* PromiseAll keeping the claims of the builders that fulfilled
PromiseAll_Settled(tasks) ==
  LET kept == SelectSeq(tasks, LAMBDA t : t.state = "fulfilled")
  IN  Fulfilled([i \in 1..Len(kept) |-> kept[i].claim[1]])

\* Promise.all of the claims array: fulfilled with the claims in array order
\* when every builder fulfilled
PromiseAll(tasks) ==
  IF \E i \in 1..Len(tasks) : tasks[i].state = "rejected"
  THEN Rejected("failed to archive invocation")
  ELSE Fulfilled([i \in 1..Len(tasks) |-> tasks[i].claim[1]])

ClaimTasks == << locTask >> \o (IF relTask.state = "none" THEN <<>> ELSE << relTask >>)

GetFulfilled ==
  /\ pc = "await"
  /\ \A i \in 1..Len(ClaimTasks) : ClaimTasks[i].state = "fulfilled"
  /\ pc' = "done"
  /\ result' = PromiseAll(ClaimTasks)
  /\ UNCHANGED <<content, dynamo, attempts, warnings, now, item, locTask, relTask>>

\* Promise.all rejects as soon as one builder rejects; the other builder is
\* not cancelled
GetRejected ==
  /\ pc = "await"
  /\ \E i \in 1..Len(ClaimTasks) : ClaimTasks[i].state = "rejected"
  /\ pc' = "failed"
  /\ result' = PromiseAll(ClaimTasks)
  /\ UNCHANGED <<content, dynamo, attempts, warnings, now, item, locTask, relTask>>

-----------------------------------------------------------------------------
(* Client: decode and claimType *)

\* claimType passing the discriminator through
claimType_Identity(can) == can

\* claimType
claimType(can) ==
  IF can = AssertLocation THEN AssertLocation
  ELSE IF can = AssertPartition THEN AssertPartition
  ELSE IF can = AssertInclusion THEN AssertInclusion
  ELSE IF can = AssertRelation THEN AssertRelation
  ELSE IF can = AssertEquals THEN AssertEquals
  ELSE "unknown"

\* the object decode returns: the named parameters spread first, then the
\* members type, export and archive
SpreadClaim(nb, type, blocks, bytes) ==
  [k \in DOMAIN nb \cup {"type", "export", "archive"} |->
     IF k = "type" THEN type
     ELSE IF k = "export" THEN blocks
     ELSE IF k = "archive" THEN bytes
     ELSE nb[k]]

\* decode: error is the message of what it throws, empty when it returns
decode(bytes) ==
  LET delegation == Extract(bytes)
  IN  IF delegation = <<>> THEN [error |-> "failed to decode claim", claim |-> <<>>]
      ELSE LET cap == delegation[1].capabilities[1]
           IN  IF ~("nb" \in DOMAIN cap /\ "content" \in DOMAIN cap.nb)
               THEN [error |-> "invalid claim", claim |-> <<>>]
               ELSE [error |-> "",
                     claim |-> << SpreadClaim(cap.nb, claimType(cap.can), bytes.blocks, bytes) >>]

-----------------------------------------------------------------------------
(* Client: read *)

SubjectA == LinkCreate(112, Multihash(SHA256, "blockA"))
SubjectC == LinkCreate(85, Multihash(SHA512, "blockC"))
PartX == LinkCreate(CAR_CODE, Multihash(SHA256, "carX"))

\* named parameters of a claim of each kind, and of a kind this library does
\* not know whose parameters include one called type
NamedParameters(can) ==
  IF can = AssertLocation
    THEN [content |-> SubjectA, location |-> << <<"https:", "//", "example.org", "/", "x">> >>,
          range |-> [offset |-> 100, length |-> 50]]
  ELSE IF can = AssertPartition THEN [content |-> SubjectA, parts |-> << PartX >>]
  ELSE IF can = AssertInclusion THEN [content |-> PartX, includes |-> SubjectC]
  ELSE IF can = AssertRelation
    THEN [content |-> SubjectA, children |-> << SubjectC >>, parts |-> << [content |-> PartX] >>]
  ELSE IF can = AssertEquals THEN [content |-> SubjectA, equals |-> SubjectC]
  ELSE IF can = "assert/future" THEN [content |-> SubjectA, proof |-> SubjectC, type |-> AssertLocation]
  ELSE [link |-> SubjectA]

\* discriminators of the claims a service can send: the five kinds, a kind
\* not known to this library, and a capability that is no claim
Cans == {AssertLocation, AssertPartition, AssertInclusion, AssertRelation, AssertEquals,
         "assert/future", "store/add"}

ClaimArchive(can) ==
  Archive(BuildIPLDView(Invoke(ServiceDID, can, NamedParameters(can), 3600)))

\* bytes that are no archive of a delegation
NotAnArchive == [roots |-> <<>>, blocks |-> <<>>]

\* a block of the response CAR whose link is the hash of its bytes
ClaimBlock(bytes) == [cid |-> LinkCreate(CAR_CODE, Sha256Digest(bytes)), bytes |-> bytes]

\* the blocks a response can hold: archived claims, bytes that do not decode,
\* and a block whose link is not the hash of its bytes
Blocks ==
  { ClaimBlock(ClaimArchive(can)) : can \in Cans }
  \cup { ClaimBlock(NotAnArchive) }
  \cup { [cid |-> LinkCreate(CAR_CODE, Sha256Digest(NotAnArchive)), bytes |-> ClaimArchive(AssertEquals)] }

\* what the CAR reader makes of the body: header tells whether the CAR header
\* arrived, blocks are the complete blocks, end tells how the bytes ended
Streams ==
  { [header |-> FALSE, blocks |-> <<>>, end |-> "complete"] }
  \cup { [header |-> TRUE, blocks |-> bs, end |-> e] :
           bs \in SeqsUpTo(Blocks, MaxBlocks), e \in {"complete", "truncated", "aborted"} }

Responses ==
  { [ok |-> TRUE, status |-> 200, body |-> << st >>] : st \in Streams }
  \cup { [ok |-> TRUE, status |-> 200, body |-> <<>>],
         [ok |-> FALSE, status |-> 404, body |-> <<>>],
         [ok |-> FALSE, status |-> 500, body |-> << [header |-> FALSE, blocks |-> <<>>, end |-> "complete"] >>] }

EndOfData == "unexpected end of data"

InitRead ==
  /\ rpc = "fetch"
  /\ response = <<>>
  /\ cursor = 0
  /\ claims = <<>>
  /\ readResult = Pending

IdleRead ==
  /\ rpc = "idle"
  /\ response = <<>>
  /\ cursor = 0
  /\ claims = <<>>
  /\ readResult = Pending

\* Catch tolerating the early end whatever was decoded
Catch_AnyCount(decoded, message) ==
  IF message = EndOfData
  THEN Fulfilled(decoded)
  ELSE Rejected(message)

\* Catch throwing every error again
Catch_Rethrow(decoded, message) == Rejected(message)

\* the catch block of read
Catch(decoded, message) ==
  IF Len(decoded) = 0 /\ message = EndOfData
  THEN Fulfilled(decoded)
  ELSE Rejected(message)

\* fetch resolved: the checks of the status and of the body, then the pipe
\* is set up with no claim decoded
Fetched ==
  /\ rpc = "fetch"
  /\ \E res \in Responses :
       /\ response' = << res >>
       /\ IF ~res.ok
          THEN rpc' = "failed" /\ readResult' = Rejected("unexpected service status")
          ELSE IF res.body = <<>>
          THEN rpc' = "failed" /\ readResult' = Rejected("missing response body")
          ELSE rpc' = "pipe" /\ readResult' = readResult
  /\ UNCHANGED <<cursor, claims>>

\* WriteError without the hash check
WriteError_Unverified(block) == decode(block.bytes).error

\* the error write throws for a block, empty when it pushes a claim
WriteError(block) ==
  IF block.cid.multihash # Sha256Digest(block.bytes) THEN "hash verification failed"
  ELSE decode(block.bytes).error

\* write(block) of the WritableStream: a throw errors the pipe and lands in
\* the catch block
WriteBlock ==
  /\ rpc = "pipe"
  /\ cursor < Len(response[1].body[1].blocks)
  /\ LET block == response[1].body[1].blocks[cursor + 1]
     IN  IF WriteError(block) # ""
         THEN /\ readResult' = Catch(claims, WriteError(block))
              /\ rpc' = IF readResult'.status = "fulfilled" THEN "done" ELSE "failed"
              /\ UNCHANGED <<cursor, claims>>
         ELSE /\ claims' = Append(claims, decode(block.bytes).claim[1])
              /\ cursor' = cursor + 1
              /\ UNCHANGED <<rpc, readResult>>
  /\ UNCHANGED response

\* the error the CAR reader raises when the body ends, empty when it closes
StreamError(stream) ==
  IF stream.end = "aborted" THEN "network error"
  ELSE IF stream.end = "truncated" \/ ~stream.header THEN EndOfData
  ELSE ""

\* the body ended after every complete block was written
StreamEnds ==
  /\ rpc = "pipe"
  /\ cursor = Len(response[1].body[1].blocks)
  /\ readResult' = IF StreamError(response[1].body[1]) # ""
                   THEN Catch(claims, StreamError(response[1].body[1]))
                   ELSE Fulfilled(claims)
  /\ rpc' = IF readResult'.status = "fulfilled" THEN "done" ELSE "failed"
  /\ UNCHANGED <<response, cursor, claims>>

-----------------------------------------------------------------------------
(* Service: the assert handlers over a claim store *)

ClientDID == "did:key:alice"

\* the assert invocations a client sends, one of each kind
AssertInvocations ==
  { Invoke(ClientDID, can, NamedParameters(can), 3600) :
      can \in {AssertLocation, AssertPartition, AssertInclusion, AssertRelation, AssertEquals} }

\* the claim a handler hands to claimStore.put
HandlerClaim(inv) == buildClaim(inv.capabilities[1].nb.content, inv)

\* claimStore.get: the stored claims whose content digest is the one asked for
ClaimStoreGet(stored, digest) == SelectSeq(stored, LAMBDA c : c.content = digest)

Receipt(inv, authorized, calls, out) ==
  [invocation |-> inv, authorized |-> authorized, puts |-> calls, out |-> out]

InitService ==
  /\ spc = "ready"
  /\ handling = <<>>
  /\ puts = 0
  /\ store = <<>>
  /\ receipts = <<>>
  /\ fetched = <<>>

IdleService ==
  /\ spc = "idle"
  /\ handling = <<>>
  /\ puts = 0
  /\ store = <<>>
  /\ receipts = <<>>
  /\ fetched = <<>>

\* an invocation arrives
Receive ==
  /\ spc = "ready"
  /\ Len(receipts) < MaxInvocations
  /\ \E inv \in AssertInvocations : handling' = << inv >>
  /\ puts' = 0
  /\ spc' = "authorize"
  /\ UNCHANGED <<store, receipts, fetched>>

\* validateAuthorization returns ok
AuthorizationOk ==
  /\ spc = "authorize"
  /\ spc' = "put"
  /\ UNCHANGED <<handling, puts, store, receipts, fetched>>

\* AuthorizationError with the claim persisted all the same
AuthorizationError_Persisting ==
  /\ spc = "authorize"
  /\ receipts' = Append(receipts, Receipt(handling[1], FALSE, puts + 1, "error"))
  /\ store' = Append(store, HandlerClaim(handling[1]))
  /\ puts' = puts + 1
  /\ handling' = <<>>
  /\ spc' = "ready"
  /\ UNCHANGED fetched

\* validateAuthorization returns an error: rejected before touching storage
AuthorizationError ==
  /\ spc = "authorize"
  /\ receipts' = Append(receipts, Receipt(handling[1], FALSE, puts, "error"))
  /\ handling' = <<>>
  /\ spc' = "ready"
  /\ UNCHANGED <<puts, store, fetched>>

\* the handler persists the claim
Put ==
  /\ spc = "put"
  /\ puts' = puts + 1
  /\ store' = Append(store, HandlerClaim(handling[1]))
  /\ spc' = "acknowledge"
  /\ UNCHANGED <<handling, receipts, fetched>>

\* claimStore.put fails with a write error, which the invocation reports
PutFails ==
  /\ spc = "put"
  /\ receipts' = Append(receipts, Receipt(handling[1], TRUE, puts + 1, "error"))
  /\ puts' = puts + 1
  /\ handling' = <<>>
  /\ spc' = "ready"
  /\ UNCHANGED <<store, fetched>>

\* the handler returns the empty success payload
Acknowledge ==
  /\ spc = "acknowledge"
  /\ receipts' = Append(receipts, Receipt(handling[1], TRUE, puts, "ok"))
  /\ handling' = <<>>
  /\ spc' = "ready"
  /\ UNCHANGED <<puts, store, fetched>>

\* claimStore.get(digest) between invocations
StoreGet ==
  /\ spc = "ready"
  /\ \E inv \in AssertInvocations :
       fetched' = ClaimStoreGet(store, inv.capabilities[1].nb.content.multihash)
  /\ UNCHANGED <<spc, handling, puts, store, receipts>>

-----------------------------------------------------------------------------
(* The specification: one request is followed, a get of the fetcher, a read  *)
(* of the client, or a series of invocations of the service                 *)

Init ==
  \/ InitGet /\ IdleRead /\ IdleService
  \/ IdleGet /\ InitRead /\ IdleService
  \/ IdleGet /\ IdleRead /\ InitService

Next ==
  \/ QueryAttemptFails /\ UNCHANGED <<readVars, serviceVars>>
  \/ QuerySucceeds /\ UNCHANGED <<readVars, serviceVars>>
  \/ LocationArchived /\ UNCHANGED <<readVars, serviceVars>>
  \/ LocationArchiveFails /\ UNCHANGED <<readVars, serviceVars>>
  \/ RelationIndexed /\ UNCHANGED <<readVars, serviceVars>>
  \/ RelationArchived /\ UNCHANGED <<readVars, serviceVars>>
  \/ RelationArchiveFails /\ UNCHANGED <<readVars, serviceVars>>
  \/ GetFulfilled /\ UNCHANGED <<readVars, serviceVars>>
  \/ GetRejected /\ UNCHANGED <<readVars, serviceVars>>
  \/ Fetched /\ UNCHANGED <<fetcherVars, serviceVars>>
  \/ WriteBlock /\ UNCHANGED <<fetcherVars, serviceVars>>
  \/ StreamEnds /\ UNCHANGED <<fetcherVars, serviceVars>>
  \/ Receive /\ UNCHANGED <<fetcherVars, readVars>>
  \/ AuthorizationOk /\ UNCHANGED <<fetcherVars, readVars>>
  \/ AuthorizationError /\ UNCHANGED <<fetcherVars, readVars>>
  \/ Put /\ UNCHANGED <<fetcherVars, readVars>>
  \/ PutFails /\ UNCHANGED <<fetcherVars, readVars>>
  \/ Acknowledge /\ UNCHANGED <<fetcherVars, readVars>>
  \/ StoreGet /\ UNCHANGED <<fetcherVars, readVars>>

Spec == Init /\ [][Next]_vars

\* an attempt of the query that fails
QueryFailure == QueryAttemptFails /\ UNCHANGED <<readVars, serviceVars>>

\* the steps of get that wait on an archive or on Promise.all
ClaimsNext ==
  \/ LocationArchived /\ UNCHANGED <<readVars, serviceVars>>
  \/ LocationArchiveFails /\ UNCHANGED <<readVars, serviceVars>>
  \/ RelationArchived /\ UNCHANGED <<readVars, serviceVars>>
  \/ RelationArchiveFails /\ UNCHANGED <<readVars, serviceVars>>
  \/ GetFulfilled /\ UNCHANGED <<readVars, serviceVars>>
  \/ GetRejected /\ UNCHANGED <<readVars, serviceVars>>

\* encodeIndex answers: the relation task does not wait on it for ever.
\* RelationIndexed is enabled exactly while relTask.state = "indexing" and it
\* leaves that state, so this is weak fairness of RelationIndexed, written
\* over the state alone
IndexAnswers == []<>(relTask.state # "indexing")

\* every awaited promise of get settles and the event loop then runs its
\* continuation: a send that does not answer fails (the client's timeouts)
\* and the backoff timer of retry fires, so a query that stays unanswered sees
\* its attempt fail; encodeIndex and archive answer, so a task that can step
\* does step and Promise.all settles
FairSpec == Spec /\ WF_vars(QueryFailure) /\ WF_vars(ClaimsNext) /\ IndexAnswers

-----------------------------------------------------------------------------
(* Properties of BlockIndexClaimFetcher.get *)

\* the tokens of a carpath: region, "/", bucket, "/", then the key
BucketOf(record) == record.carpath[3]
KeyOf(record) == SubSeq(record.carpath, 5, Len(record.carpath))

\* the priority tier of a record of the position index
Tier(record) ==
  IF BucketOf(record) = "carpark-prod-0" THEN 1
  ELSE IF BucketOf(record) = "dotstorage-prod-1" /\ KeyOf(record)[1] \in RawPrefixed THEN 2
  ELSE IF BucketOf(record) = "dotstorage-prod-0" /\ KeyOf(record)[1] \in RawPrefixed THEN 3
  ELSE 4

\* the place of the record the priority order picks from a non-empty result set
PickedPlace(records) ==
  LET best == CHOOSE t \in 1..4 :
                /\ \E i \in 1..Len(records) : Tier(records[i]) = t
                /\ \A i \in 1..Len(records) : Tier(records[i]) >= t
  IN  IF best = 4 THEN 1
      ELSE CHOOSE i \in 1..Len(records) :
             /\ Tier(records[i]) = best
             /\ \A j \in 1..(i - 1) : Tier(records[j]) # best

LocationText(record) ==
  <<"https:", "//", BucketOf(record), ".s3.amazonaws.com", "/">> \o KeyOf(record)

\* the text of the key's file name up to its first dot names a CAR: the
\* digest of the CAR it names, or "" when it names none
NamedCar(record) ==
  LET key == KeyOf(record)
      named(text) == \E i \in 1..Len(key) :
                       /\ key[i] = text
                       /\ i = 1 \/ key[i - 1] = "/"
                       /\ \A j \in i..Len(key) : key[j] # "/"
  IN  IF named(CarCidText) THEN "carX"
      ELSE IF named(CarHashTextY) THEN "carY"
      ELSE IF named(CarHashTextZ) THEN "carZ"
      ELSE ""

Selected == pc \in {"await", "done"} \/ (pc = "failed" /\ attempts <= Retries)

BuiltInvocations == locTask.invocation \o relTask.invocation

\* C1: get selects one record by the fixed priority (current production
\* bucket, then raw keys of dotstorage-prod-1, then raw keys of
\* dotstorage-prod-0, then the first record), the first of its tier, and both
\* claims are built from that record.
C1_SelectionPriority ==
  (Selected /\ dynamo # <<>>) =>
    LET picked == dynamo[PickedPlace(dynamo)]
    IN  /\ Len(item) = 1
        /\ item[1].bucket = << BucketOf(picked) >>
        /\ item[1].key = KeyOf(picked)
        /\ item[1].offset = picked.offset
        /\ item[1].length = picked.length
        /\ locTask.invocation # <<>>
        /\ \A i \in 1..Len(BuiltInvocations) :
             BuiltInvocations[i].capabilities[1].nb.content = content
        /\ LET nb == locTask.invocation[1].capabilities[1].nb
           IN  /\ nb.location = << LocationText(picked) >>
               /\ nb.range = [offset |-> picked.offset, length |-> picked.length]
        /\ relTask.invocation # <<>> =>
             LET nb == relTask.invocation[1].capabilities[1].nb
             IN  /\ nb.parts[1].content.multihash.digest = NamedCar(picked)
                 /\ nb.parts[1].includes.content = relTask.invocation[1].attached[1].cid

\* a legacy record precedes a record of the current bucket, and both claims
\* of the current bucket's record were returned
C1_Witness ==
  /\ pc = "done"
  /\ Len(dynamo) = 2
  /\ Tier(dynamo[1]) = 2
  /\ Tier(dynamo[2]) = 1
  /\ Len(result.claims) = 2
  /\ item[1].bucket = <<"carpark-prod-0">>

\* C2: a get that succeeds returns the empty list when the position index has
\* no record (and then nothing was built or signed), one location claim when
\* the selected key names no CAR, and a location claim followed by a relation
\* claim when it does; a get fails only for a failed query or a failed archive.
C2_ResultShapes ==
  /\ pc = "done" =>
       /\ result.status = "fulfilled"
       /\ dynamo = <<>> => (result.claims = <<>> /\ locTask = NoTask /\ relTask = NoTask)
       /\ dynamo # <<>> =>
            IF NamedCar(dynamo[PickedPlace(dynamo)]) = ""
            THEN /\ Len(result.claims) = 1
                 /\ result.claims[1].value.can = AssertLocation
            ELSE /\ Len(result.claims) = 2
                 /\ result.claims[1].value.can = AssertLocation
                 /\ result.claims[2].value.can = AssertRelation
  /\ pc = "failed" =>
       \/ attempts > Retries
       \/ locTask.state = "rejected"
       \/ relTask.state = "rejected"
  /\ (Selected /\ dynamo # <<>>) =>
       (relTask.state = "none" <=> NamedCar(dynamo[PickedPlace(dynamo)]) = "")

\* a record whose key names no CAR was selected and its location claim alone
\* was returned
C2_Witness ==
  /\ pc = "done"
  /\ dynamo # <<>>
  /\ NamedCar(dynamo[PickedPlace(dynamo)]) = ""
  /\ Len(result.claims) = 1
  /\ result.claims[1].value.can = AssertLocation

\* the length of the unsigned LEB128 encoding of a value below 2^21
VarintLength(v) == IF v < 128 THEN 1 ELSE IF v <= 16383 THEN 2 ELSE 3

\* the byte length of each content link: a CIDv1 with a sha2-256 digest, a
\* CIDv0, a CIDv1 with a sha2-512 digest
ContentByteLength ==
  IF content.multihash.digest = "blockA" THEN 36
  ELSE IF content.multihash.digest = "blockB" THEN 34
  ELSE 68

\* C3: the offset in the single entry of the relation claim's index is
\* offset - (varintLength(n + length) + n) for a content link of n bytes, and
\* the location claim's range keeps the record's offset and length.
C3_OffsetCorrection ==
  /\ relTask.invocation # <<>> =>
       LET index == relTask.invocation[1].attached[1].bytes
           n == ContentByteLength
       IN  /\ Len(index) = 1
           /\ index[1].digest = content.multihash.digest
           /\ index[1].offset = item[1].offset - (VarintLength(n + item[1].length) + n)
           /\ (n = 36 /\ item[1].offset = 100 /\ item[1].length = 50) => index[1].offset = 63
  /\ relTask.claim # <<>> =>
       relTask.claim[1].bytes.blocks[1].bytes = relTask.invocation[1].attached[1].bytes
  /\ locTask.claim # <<>> =>
       locTask.claim[1].value.nb.range = [offset |-> item[1].offset, length |-> item[1].length]

\* the example of the specification: offset 100, length 50 and a link of 36
\* bytes give the index offset 63
C3_Witness ==
  /\ pc = "done"
  /\ Len(result.claims) = 2
  /\ ContentByteLength = 36
  /\ item[1].offset = 100
  /\ item[1].length = 50
  /\ result.claims[2].bytes.blocks[1].bytes[1].offset = 63
  /\ result.claims[1].value.nb.range.offset = 100

\* a varint of two bytes: a link of 36 bytes and a length of 92 give 128
C3_WitnessTwoBytes ==
  /\ relTask.claim # <<>>
  /\ ContentByteLength = 36
  /\ item[1].length = 92
  /\ relTask.claim[1].bytes.blocks[1].bytes[1].offset = item[1].offset - 38

-----------------------------------------------------------------------------
(* Properties of the assert handlers *)

OkReceipts == SelectSeq(receipts, LAMBDA r : r.out = "ok")

\* C4: for every invocation handled, claimStore.put was called once when
\* the authorization returned ok and never when it returned an error; the
\* put precedes the empty success payload, and the claim put is then among
\* the claims get returns for the multihash of its content.
C4_PutOncePerAuthorizedInvocation ==
  /\ \A i \in 1..Len(receipts) :
       LET r == receipts[i]
           digest == r.invocation.capabilities[1].nb.content.multihash
       IN  /\ r.puts = (IF r.authorized THEN 1 ELSE 0)
           /\ r.out = "ok" =>
                /\ r.authorized
                /\ \E j \in 1..Len(ClaimStoreGet(store, digest)) :
                     ClaimStoreGet(store, digest)[j].value = r.invocation.capabilities[1]
  /\ spc = "authorize" => puts = 0
  /\ spc = "acknowledge" => (puts = 1 /\ store # <<>>
                             /\ store[Len(store)].value = handling[1].capabilities[1])
  /\ Len(store) = Len(OkReceipts) + (IF spc = "acknowledge" THEN 1 ELSE 0)
  /\ \A j \in 1..Len(fetched) : \E k \in 1..Len(store) : store[k] = fetched[j]

\* one invocation was refused and one was accepted, and get returns the
\* accepted claim
C4_Witness ==
  /\ Len(receipts) = 2
  /\ ~receipts[1].authorized
  /\ receipts[2].out = "ok"
  /\ Len(store) = 1
  /\ fetched = store

-----------------------------------------------------------------------------
(* Properties of the archived claims *)

BuiltClaims == locTask.claim \o relTask.claim

\* the capability of an archived claim, decoded from its bytes
Decoded(claim) == Extract(claim.bytes)[1].capabilities[1]

\* C5: decoding the bytes of an archived claim gives back the named
\* parameters that were signed (the location as text and the range of a
\* location claim, the equals link of an equals claim), the record's content
\* is the multihash of the claim's subject, and the record's claim link is
\* the link computed again from the bytes.
C5_ArchiveRoundTrip ==
  /\ \A i \in 1..Len(BuiltClaims) :
       LET c == BuiltClaims[i]
       IN  /\ Extract(c.bytes) # <<>>
           /\ c.claim = Extract(c.bytes)[1].cid
           /\ c.content = content.multihash
           /\ Decoded(c).nb.content = content
           /\ Decoded(c) = c.value
  /\ locTask.claim # <<>> =>
       LET nb == Decoded(locTask.claim[1]).nb
       IN  /\ nb.location = << LocationText(dynamo[PickedPlace(dynamo)]) >>
           /\ nb.range = [offset |-> item[1].offset, length |-> item[1].length]
  /\ \A i \in 1..Len(result.claims) :
       \E j \in 1..Len(BuiltClaims) : result.claims[i] = BuiltClaims[j]
  /\ \A i \in 1..Len(store) :
       LET c == store[i]
       IN  /\ Extract(c.bytes) # <<>>
           /\ c.claim = Extract(c.bytes)[1].cid
           /\ Decoded(c).nb = NamedParameters(Decoded(c).can)
           /\ c.content = NamedParameters(Decoded(c).can).content.multihash
           /\ \E inv \in AssertInvocations : Decoded(c) = inv.capabilities[1]

\* both claims of a get were archived
C5_Witness ==
  /\ pc = "done"
  /\ Len(result.claims) = 2
  /\ Decoded(result.claims[1]).nb.range.length = 92

\* an equals claim was stored by the service
C5_WitnessEquals ==
  /\ store # <<>>
  /\ Decoded(store[1]).can = AssertEquals
  /\ Decoded(store[1]).nb.equals = SubjectC

-----------------------------------------------------------------------------
(* Properties of the client's read and decode *)

ClaimCans == Cans \ {"store/add"}
KnownCans == {AssertLocation, AssertPartition, AssertInclusion, AssertRelation, AssertEquals}

\* the block holds an archived claim under the hash of its bytes
Verifies(block) == \E can \in ClaimCans : block = ClaimBlock(ClaimArchive(can))

\* the discriminator of the claim a verifying block holds
CanOf(block) == CHOOSE can \in ClaimCans : block = ClaimBlock(ClaimArchive(can))

\* the place of the first block that fails verification, 0 when none does
FirstFailing(blocks) ==
  IF \A i \in 1..Len(blocks) : Verifies(blocks[i]) THEN 0
  ELSE CHOOSE i \in 1..Len(blocks) :
         ~Verifies(blocks[i]) /\ \A j \in 1..(i - 1) : Verifies(blocks[j])

\* the error a block that fails verification raises
FailureOf(block) ==
  IF block.bytes = NotAnArchive THEN "failed to decode claim"
  ELSE IF block.bytes = ClaimArchive("store/add") THEN "invalid claim"
  ELSE "hash verification failed"

Piped == response # <<>> /\ response[1].ok /\ response[1].body # <<>>
Body == response[1].body[1]
ReadEnded == rpc \in {"done", "failed"}
EndsEarly(stream) == ~stream.header \/ stream.end = "truncated"
EmptyStream(stream) == stream.blocks = <<>> /\ stream.end = "complete"

\* the claims of a list are those of the blocks, in the order of the blocks
InStreamOrder(list, blocks) ==
  /\ Len(list) = Len(blocks)
  /\ \A i \in 1..Len(list) :
       /\ list[i].archive = blocks[i].bytes
       /\ list[i].content = NamedParameters(CanOf(blocks[i])).content

\* C6: read returns the empty list when the stream fails with 'unexpected
\* end of data' before any claim was decoded, fails without a partial list
\* when an error is raised after a claim was decoded, and with no error
\* returns the decoded claims in stream order.
C6_ReadStateMachine ==
  (ReadEnded /\ Piped) =>
    LET failing == FirstFailing(Body.blocks)
    IN  /\ (failing = 0 /\ EndsEarly(Body) /\ Body.end # "aborted" /\ Body.blocks = <<>>) =>
             readResult = Fulfilled(<<>>)
        /\ (failing > 1 \/ (failing = 0 /\ Body.blocks # <<>>
                            /\ (EndsEarly(Body) \/ Body.end = "aborted"))) =>
             (readResult.status = "rejected" /\ readResult.claims = <<>> /\ rpc = "failed")
        /\ (failing = 0 /\ Body.header /\ Body.end = "complete") =>
             (readResult.status = "fulfilled" /\ InStreamOrder(readResult.claims, Body.blocks))

\* the stream was cut after two claims were decoded, and read failed
C6_Witness ==
  /\ rpc = "failed"
  /\ Piped
  /\ Len(claims) = 2
  /\ Body.end = "truncated"
  /\ readResult = Rejected(EndOfData)

\* C7 as stated: a successful response without a body, or with an empty
\* stream, makes read return the empty list.
C7_NoBodyIsNoClaims ==
  (ReadEnded /\ response # <<>> /\ response[1].ok
     /\ (response[1].body = <<>> \/ EmptyStream(Body))) =>
    readResult = Fulfilled(<<>>)

\* C7: a successful response with an empty stream makes read return the
\* empty list; a successful response without a body makes read fail with
\* 'missing response body'.
C7_EmptyStreamIsNoClaims ==
  (ReadEnded /\ response # <<>> /\ response[1].ok) =>
    /\ response[1].body = <<>> => (rpc = "failed" /\ readResult = Rejected("missing response body"))
    /\ (response[1].body # <<>> /\ EmptyStream(Body)) => (rpc = "done" /\ readResult = Fulfilled(<<>>))

\* a body of no bytes was read as no claims
C7_Witness ==
  /\ rpc = "done"
  /\ Piped
  /\ ~Body.header
  /\ EmptyStream(Body)
  /\ readResult = Fulfilled(<<>>)

\* C8 as stated: a record that fails verification is dropped and the valid
\* records of the stream are returned.
C8_FailingRecordDropped ==
  (ReadEnded /\ Piped /\ Body.header /\ Body.end = "complete"
     /\ FirstFailing(Body.blocks) # 0) =>
    /\ readResult.status = "fulfilled"
    /\ InStreamOrder(readResult.claims, SelectSeq(Body.blocks, Verifies))

\* C8: a record that fails verification makes read fail with the error of
\* that record: no claim is returned, and the records after it are not
\* decoded.
C8_FailingRecordFailsRead ==
  (ReadEnded /\ Piped /\ FirstFailing(Body.blocks) # 0) =>
    LET failing == FirstFailing(Body.blocks)
    IN  /\ rpc = "failed"
        /\ readResult = Rejected(FailureOf(Body.blocks[failing]))
        /\ Len(claims) = failing - 1

\* a valid record was decoded, the next one failed its hash check, and read
\* failed
C8_Witness ==
  /\ rpc = "failed"
  /\ Piped
  /\ Len(claims) = 1
  /\ Len(Body.blocks) = 2
  /\ Body.end = "complete"
  /\ readResult = Rejected("hash verification failed")

\* C9: the type of a decoded claim is its discriminator when that is one of
\* the five known ones and 'unknown' otherwise, whatever its parameters hold;
\* a claim of an unknown kind that has a content decodes, and every named
\* parameter is kept (but one called type, export or archive, which the
\* claim's own members of these names replace).
C9_TypeByDiscriminator ==
  /\ \A i \in 1..Len(claims) :
       LET can == CanOf(Body.blocks[i])
           nb == NamedParameters(can)
       IN  /\ claims[i].type = (IF can \in KnownCans THEN can ELSE "unknown")
           /\ \A k \in DOMAIN nb \ {"type", "export", "archive"} : claims[i][k] = nb[k]
           /\ DOMAIN claims[i] = DOMAIN nb \cup {"type", "export", "archive"}
  /\ (ReadEnded /\ Piped /\ readResult.error \in {"invalid claim", "failed to decode claim"}) =>
       Body.blocks[Len(claims) + 1].bytes \in {NotAnArchive, ClaimArchive("store/add")}

\* a claim of a kind this library does not know was decoded
C9_Witness ==
  /\ Len(claims) = 2
  /\ claims[1].type = AssertEquals
  /\ claims[2].type = "unknown"
  /\ claims[2].proof = SubjectC
  /\ claims[2].content = SubjectA

-----------------------------------------------------------------------------
(* Archive failures in get *)

\* C10 as stated: when the archive of the relation claim fails and the
\* location claim is archived, get returns the location claim.
C10_SiblingReturned ==
  (pc \in {"done", "failed"} /\ locTask.state = "fulfilled" /\ relTask.state = "rejected") =>
    result = Fulfilled(locTask.claim)

\* C10: a failed archive of either claim makes get fail as a whole with
\* 'failed to archive invocation': no claim is returned, the archived sibling
\* neither; get returns claims only when every claim was archived.
C10_ArchiveFailureFailsGet ==
  /\ (pc \in {"done", "failed"} /\ (locTask.state = "rejected" \/ relTask.state = "rejected")) =>
       (pc = "failed" /\ result = Rejected("failed to archive invocation"))
  /\ (pc = "done" /\ dynamo # <<>>) =>
       /\ locTask.state = "fulfilled"
       /\ relTask.state \in {"fulfilled", "none"}
       /\ result = Fulfilled(BuiltClaims)

\* the relation claim failed to archive, the location claim was archived,
\* and get failed
C10_Witness ==
  /\ pc = "failed"
  /\ locTask.state = "fulfilled"
  /\ relTask.state = "rejected"
  /\ result.claims = <<>>

-----------------------------------------------------------------------------
(* Retries of the position-index query *)

\* a task that has settled
Settled(task) == task.state \in {"fulfilled", "rejected"}

\* the query gave up: every attempt failed
Exhausted == attempts = Retries + 1

\* the bounds and the outcomes of the attempts, in every state
RetryBounded ==
  /\ attempts <= Retries + 1
  /\ warnings = attempts
  /\ pc = "query" =>
       /\ attempts <= Retries
       /\ result = Pending
       /\ locTask = NoTask /\ relTask = NoTask
  /\ Exhausted =>
       /\ pc = "failed"
       /\ result = Rejected("query failed")
       /\ item = <<>>
       /\ locTask = NoTask /\ relTask = NoTask
  /\ (pc = "failed" /\ ~Settled(locTask) /\ ~Settled(relTask)) => Exhausted
  /\ (pc = "failed" /\ ~Exhausted) =>
       (locTask.state = "rejected" \/ relTask.state = "rejected")

\* what a step may do: the query is over once it is left, and a settled task
\* is not run again
RetryStep ==
  /\ pc # "query" =>
       /\ pc' # "query"
       /\ attempts' = attempts
       /\ warnings' = warnings
  /\ pc \in {"done", "failed"} => (pc' = pc /\ result' = result)
  /\ Settled(locTask) => locTask' = locTask
  /\ Settled(relTask) => relTask' = relTask
  /\ (locTask'.state = "archiving" /\ locTask.state # "archiving") => pc = "query"
  /\ (relTask'.state = "archiving" /\ relTask.state # "archiving") =>
       relTask.state = "indexing"

\* C11: the query is attempted at most Retries + 1 times and every failed
\* attempt is logged; a failed attempt short of the last leaves get pending;
\* no query is issued once one succeeded; when every attempt failed get is
\* rejected and no claim was built; an archive that settled is never run
\* again; and every get ends, fulfilled or rejected.
C11_BoundedRetryThenSettle ==
  /\ []RetryBounded
  /\ [][RetryStep]_vars
  /\ (pc \in {"query", "await"}) ~> (pc \in {"done", "failed"})

\* every attempt of the query failed and was logged, get is rejected and no
\* claim was built
C11_Witness ==
  /\ pc = "failed"
  /\ attempts = Retries + 1
  /\ warnings = Retries + 1
  /\ result = Rejected("query failed")
  /\ locTask = NoTask
  /\ relTask = NoTask

\* the query succeeded after failed attempts, and get returned its claims
C11_WitnessRecovered ==
  /\ pc = "done"
  /\ attempts = Retries
  /\ warnings = Retries
  /\ locTask.state = "fulfilled"
  /\ result = Fulfilled(BuiltClaims)

====
